---- MODULE Spec2Model ----
(***************************************************************************)
(* Model of the clinic and appointment data-access layer of                *)
(* hikma-health-server: src/src/models/clinic.ts (Clinic.getAll,           *)
(* Clinic.softDelete, Clinic.save, the appointment server functions) and   *)
(* the appointment model (Appointment.API and Appointment.Sync).           *)
(*                                                                         *)
(* A table is a set of rows, a row is a record of its columns.  A nullable *)
(* column holds an option: None (SQL NULL) or Some(v).  Time is a counter  *)
(* of clock ticks; now() and new Date() read it.                           *)
(***************************************************************************)
EXTENDS Integers, Sequences, FiniteSets, TLC

VARIABLES
    clinics,        \* table "clinics"
    users,          \* table "users" (the columns the clinic code reads)
    patients,       \* table "patients" (ids)
    appointments,   \* table "appointments"
    visits,         \* table "visits"
    now,            \* the server clock
    nextUuid,       \* number of ids uuidV1() has handed out
    sdPc,           \* Clinic.softDelete: "idle", "update" (between its two
                    \* queries), or how the last call ended: "done", "thrown"
    sdId,           \* the id the call in flight was given
    saveRes,        \* how the last Appointment.API.save ended
    applied         \* the deltas Appointment.Sync applied last, oldest first

vars == <<clinics, users, patients, appointments, visits, now, nextUuid,
          sdPc, sdId, saveRes, applied>>

---------------------------------------------------------------------------
(* Bounds of the model. *)

\* The clock stops ticking at MaxTime.
MaxTime == 2

\* uuidV1() is called at most MaxUuid times by the appointment requests.
MaxUuid == 2

\* Clinic.save creates clinics until MaxClinics are stored.
MaxClinics == 2

\* The number of applied deltas that are remembered.
MaxApplied == 2

---------------------------------------------------------------------------
(* Values. *)

None == << >>
Some(v) == <<v>>

\* The n-th id handed out by uuidV1(): a 36-character UUID string.
Uuid(n) == "00000000-0000-1000-8000-00000000000" \o ToString(n)

\* Rows present before the first request: one clinic with one registered
\* user, and one patient.
SeedClinicId == "c1c1c1c1-0000-1000-8000-0000000000c1"
SeedUserId == "e5e5e5e5-0000-1000-8000-0000000000e5"
SeedPatientId == "a7a7a7a7-0000-1000-8000-0000000000a7"

\* A well-formed clinic id that no row carries.
MissingClinicId == "c9c9c9c9-0000-1000-8000-0000000000c9"

ClinicNames == {"North", "South"}

UserIds == {SeedUserId}

---------------------------------------------------------------------------
(* Clinic (src/src/models/clinic.ts). *)

\* Clinic.getAll: the rows WHERE is_deleted = false.
ClinicGetAll == {c \in clinics : c.is_deleted = FALSE}

\* The query opening Clinic.softDelete: users WHERE clinic_id = id AND
\* is_deleted = false.
UsersInClinic(id) == {u \in users : u.clinic_id = id /\ u.is_deleted = FALSE}

\* Variant of the guard of Clinic.softDelete that tolerates one user.
HasRegisteredUsersOffByOne(found) == Cardinality(found) > 1

\* if (usersInClinic.length > 0) throw
HasRegisteredUsers(found) == Cardinality(found) > 0

\* Variant of the UPDATE of Clinic.softDelete that has no WHERE clause.
ClinicMarkDeletedAll(rows, id, t) ==
    {[c EXCEPT !.is_deleted = TRUE, !.deleted_at = Some(t)] : c \in rows}

\* UPDATE clinics SET is_deleted = true, deleted_at = <t> WHERE id = <id>
ClinicMarkDeleted(rows, id, t) ==
    {IF c.id = id
        THEN [c EXCEPT !.is_deleted = TRUE, !.deleted_at = Some(t)]
        ELSE c : c \in rows}

\* Clinic.softDelete up to its first await: the users query and the throw.
ClinicSoftDeleteCheck(id) ==
    /\ sdPc # "update"
    /\ IF HasRegisteredUsers(UsersInClinic(id))
          THEN sdPc' = "thrown"
          ELSE sdPc' = "update"
    /\ sdId' = id
    /\ UNCHANGED <<clinics, users, patients, appointments, visits, now,
                   nextUuid, saveRes, applied>>

\* Clinic.softDelete after the users query found nothing: the UPDATE.
ClinicSoftDeleteUpdate ==
    /\ sdPc = "update"
    /\ clinics' = ClinicMarkDeleted(clinics, sdId, now)
    /\ sdPc' = "done"
    /\ UNCHANGED <<sdId, users, patients, appointments, visits, now,
                   nextUuid, saveRes, applied>>

\* Variant of the test of Clinic.save with the length comparison reversed.
ClinicSaveCreatesOnLongId(id) == id = None \/ Len(id[1]) > 5

\* typeof id !== "string" || id.length <= 5
ClinicSaveCreates(id) == id = None \/ Len(id[1]) <= 5

\* The row Clinic.save inserts.
NewClinicRow(id, name, t) ==
    [id |-> id, name |-> Some(name), is_deleted |-> FALSE,
     created_at |-> t, updated_at |-> t, last_modified |-> t,
     server_created_at |-> t, deleted_at |-> None]

\* UPDATE clinics SET name = <name> WHERE id = <id>
ClinicRename(rows, id, name) ==
    {IF c.id = id THEN [c EXCEPT !.name = Some(name)] ELSE c : c \in rows}

\* Clinic.save({id, name})
ClinicSave(id, name) ==
    /\ IF ClinicSaveCreates(id)
          THEN /\ Cardinality(clinics) < MaxClinics
               /\ nextUuid' = nextUuid + 1
               /\ clinics' = clinics \cup
                      {NewClinicRow(Uuid(nextUuid + 1), name, now)}
          ELSE /\ clinics' = ClinicRename(clinics, id[1], name)
               /\ UNCHANGED nextUuid
    /\ UNCHANGED <<users, patients, appointments, visits, now, sdPc, sdId,
                   saveRes, applied>>

\* The ids a request may name: those of the stored clinics and one that is
\* not stored.
ClinicIdInputs == {c.id : c \in clinics} \cup {MissingClinicId}

\* The id argument of Clinic.save: absent, the route's "new", or an id.
ClinicSaveIdInputs == {None, Some("new")} \cup {Some(i) : i \in ClinicIdInputs}

---------------------------------------------------------------------------
(* Appointment (the appointment model: Appointment.API, Appointment.Sync). *)

\* Ids a client supplies for appointments and visits.
ApptA == "a0a0a0a0-0000-1000-8000-0000000000a0"
ApptB == "b0b0b0b0-0000-1000-8000-0000000000b0"
ClientVisitId == "d0d0d0d0-0000-1000-8000-0000000000d0"

\* A timestamp Postgres can cast to timestamptz, and one it cannot.
GoodTimestamp == "2025-01-01T09:00:00Z"
BadTimestamp == "not a date"

\* The appointment records (Appointment.EncodedT) a client sends: a new
\* booking without ids, a booking that carries its id, its visit and its
\* provider and is flagged deleted by the client, a booking that carries
\* its id but no visit, and each of them with a timestamp that does not
\* parse.
BookingWithoutIds ==
    [id |-> "",
     provider_id |-> None,
     clinic_id |-> SeedClinicId,
     patient_id |-> SeedPatientId,
     user_id |-> SeedUserId,
     current_visit_id |-> "",
     fulfilled_visit_id |-> None,
     timestamp |-> GoodTimestamp,
     duration |-> 30,
     reason |-> "checkup",
     notes |-> "",
     status |-> "pending",
     metadata |-> "{}",
     is_deleted |-> FALSE,
     created_at |-> 0,
     updated_at |-> 0,
     last_modified |-> 0,
     server_created_at |-> 0,
     deleted_at |-> None]

BookingWithIds ==
    [BookingWithoutIds EXCEPT
        !.id = ApptB,
        !.provider_id = Some(SeedUserId),
        !.current_visit_id = ClientVisitId,
        !.status = "confirmed",
        !.is_deleted = TRUE,
        !.deleted_at = Some(0)]

BookingWithoutVisit == [BookingWithoutIds EXCEPT !.id = ApptB]

\* Each record as it is and with a timestamp that does not parse.
WithBadTimestamps(good) ==
    good \cup {[a EXCEPT !.timestamp = BadTimestamp] : a \in good}

\* The appointment argument of Appointment.API.save.
AppointmentInputs == WithBadTimestamps({BookingWithoutIds, BookingWithIds})

\* The delta argument of Sync.upsertFromDelta.
DeltaInputs ==
    WithBadTimestamps({BookingWithoutIds, BookingWithIds, BookingWithoutVisit})

\* isValidUUID of @/lib/utils: the string has the length of a UUID.
isValidUUID(s) == Len(s) = 36

\* Appointment.API.getAll: the rows WHERE is_deleted = false.
AppointmentGetAll == {a \in appointments : a.is_deleted = FALSE}

\* Appointment.API.getById: the first row WHERE id = <id> AND is_deleted =
\* false, or nothing.
AppointmentGetById(id) ==
    LET found == {a \in appointments : a.id = id /\ a.is_deleted = FALSE}
    IN  IF found = {} THEN None ELSE Some(CHOOSE a \in found : TRUE)

\* Appointment.API.getAllWithDetails: appointments INNER JOIN patients INNER
\* JOIN clinics INNER JOIN users WHERE appointments.is_deleted = false.  A
\* NULL provider_id equals no users.id.
AppointmentGetAllWithDetails ==
    {[appointment |-> a, patient |-> p, clinic |-> c, provider |-> u] :
        a \in appointments, p \in patients, c \in clinics, u \in users}
    \cap
    {d \in [appointment : appointments, patient : patients, clinic : clinics,
            provider : users] :
        /\ d.appointment.patient_id = d.patient
        /\ d.appointment.clinic_id = d.clinic.id
        /\ d.appointment.provider_id = Some(d.provider.id)
        /\ d.appointment.is_deleted = FALSE}

\* UPDATE appointments SET status, updated_at = now(), last_modified = now()
\* WHERE id = <id>
AppointmentToggleStatus(id, status) ==
    /\ appointments' =
          {IF a.id = id
              THEN [a EXCEPT !.status = status, !.updated_at = now,
                             !.last_modified = now]
              ELSE a : a \in appointments}
    /\ UNCHANGED <<clinics, users, patients, visits, now, nextUuid, sdPc,
                   sdId, saveRes, applied>>

\* Variant of the UPDATE of Appointment.API.softDelete that removes the row.
AppointmentMarkDeletedHard(rows, id, t) == {a \in rows : a.id # id}

\* UPDATE appointments SET is_deleted = true, deleted_at = now(),
\* updated_at = now(), last_modified = now() WHERE id = <id>
AppointmentMarkDeleted(rows, id, t) ==
    {IF a.id = id
        THEN [a EXCEPT !.is_deleted = TRUE, !.deleted_at = Some(t),
                       !.updated_at = t, !.last_modified = t]
        ELSE a : a \in rows}

\* The body of Appointment.API.softDelete(id).
SoftDeleteBody(id) ==
    /\ appointments' = AppointmentMarkDeleted(appointments, id, now)
    /\ UNCHANGED <<clinics, users, patients, visits, now, nextUuid, sdPc,
                   sdId, saveRes>>

\* Appointment.API.softDelete(id)
AppointmentSoftDelete(id) == SoftDeleteBody(id) /\ UNCHANGED applied

\* Variant of the test guarding the visit insert that also skips the insert
\* for an empty current_visit_id.
SaveCreatesVisitUnlessEmpty(appointment) ==
    appointment.current_visit_id # "" /\
    ~isValidUUID(appointment.current_visit_id)

\* Variant of the test guarding the visit insert that inserts a visit on
\* every save.
SaveCreatesVisitAlways(appointment) == TRUE

\* if (!isValidUUID(appointment.current_visit_id))
SaveCreatesVisit(appointment) == ~isValidUUID(appointment.current_visit_id)

\* let visitId = current_visit_id && isValidUUID(current_visit_id)
\*                   ? current_visit_id : uuidV1()
\* with n ids handed out before.
SaveUsesSuppliedVisitId(appointment) ==
    appointment.current_visit_id # "" /\
    isValidUUID(appointment.current_visit_id)

SaveVisitId(appointment, n) ==
    IF SaveUsesSuppliedVisitId(appointment)
       THEN appointment.current_visit_id
       ELSE Uuid(n + 1)

\* The row inserted into visits.
NewVisitRow(visitId, appointment, currentUserName, t) ==
    [id |-> visitId,
     patient_id |-> appointment.patient_id,
     clinic_id |-> appointment.clinic_id,
     provider_id |-> appointment.user_id,
     is_deleted |-> FALSE,
     created_at |-> t, updated_at |-> t, last_modified |-> t,
     server_created_at |-> t,
     deleted_at |-> None,
     metadata |-> "{}",
     provider_name |-> currentUserName]

\* uuidV1() calls made for the visit id.
SaveVisitUuids(appointment) ==
    IF SaveUsesSuppliedVisitId(appointment) THEN 0 ELSE 1

\* id || appointment.id || uuidV1(), with n ids handed out before.
SaveNeedsFreshId(id, appointment) ==
    (id = None \/ id = Some("")) /\ appointment.id = ""

SaveTargetId(id, appointment, n) ==
    IF id # None /\ id # Some("") THEN id[1]
    ELSE IF appointment.id # "" THEN appointment.id
    ELSE Uuid(n + 1)

\* The VALUES of the INSERT INTO appointments ("excluded" on a conflict).
NewAppointmentRow(targetId, appointment, visitId, t) ==
    [id |-> targetId,
     clinic_id |-> appointment.clinic_id,
     patient_id |-> appointment.patient_id,
     user_id |-> appointment.user_id,
     current_visit_id |-> visitId,
     created_at |-> appointment.created_at,
     updated_at |-> appointment.updated_at,
     last_modified |-> t,
     server_created_at |-> t,
     deleted_at |-> None,
     metadata |-> appointment.metadata,
     duration |-> appointment.duration,
     reason |-> appointment.reason,
     notes |-> appointment.notes,
     status |-> appointment.status,
     fulfilled_visit_id |-> appointment.fulfilled_visit_id,
     timestamp |-> appointment.timestamp,
     is_deleted |-> FALSE,
     provider_id |-> appointment.provider_id]

\* Variant of the conflict update that takes last_modified from the client's
\* record, as created_at and updated_at are.
ConflictUpdateClientClock(old, excluded, appointment, t) ==
    [old EXCEPT
        !.id = excluded.id,
        !.clinic_id = appointment.clinic_id,
        !.patient_id = excluded.patient_id,
        !.user_id = excluded.user_id,
        !.current_visit_id = excluded.current_visit_id,
        !.created_at = appointment.created_at,
        !.updated_at = appointment.updated_at,
        !.last_modified = appointment.last_modified,
        !.deleted_at = excluded.deleted_at,
        !.metadata = excluded.metadata,
        !.duration = appointment.duration,
        !.reason = appointment.reason,
        !.notes = appointment.notes,
        !.status = appointment.status,
        !.fulfilled_visit_id = appointment.fulfilled_visit_id,
        !.timestamp = appointment.timestamp,
        !.is_deleted = FALSE,
        !.provider_id = appointment.provider_id]

\* Variant of the conflict update that leaves is_deleted and deleted_at as
\* they are stored.
ConflictUpdateKeepsDeleted(old, excluded, appointment, t) ==
    [old EXCEPT
        !.id = excluded.id,
        !.clinic_id = appointment.clinic_id,
        !.patient_id = excluded.patient_id,
        !.user_id = excluded.user_id,
        !.current_visit_id = excluded.current_visit_id,
        !.created_at = appointment.created_at,
        !.updated_at = appointment.updated_at,
        !.last_modified = t,
        !.deleted_at = old.deleted_at,
        !.metadata = excluded.metadata,
        !.duration = appointment.duration,
        !.reason = appointment.reason,
        !.notes = appointment.notes,
        !.status = appointment.status,
        !.fulfilled_visit_id = appointment.fulfilled_visit_id,
        !.timestamp = appointment.timestamp,
        !.is_deleted = old.is_deleted,
        !.provider_id = appointment.provider_id]

\* ON CONFLICT (id) DO UPDATE SET ...: every column but server_created_at.
ConflictUpdate(old, excluded, appointment, t) ==
    [old EXCEPT
        !.id = excluded.id,
        !.clinic_id = appointment.clinic_id,
        !.patient_id = excluded.patient_id,
        !.user_id = excluded.user_id,
        !.current_visit_id = excluded.current_visit_id,
        !.created_at = appointment.created_at,
        !.updated_at = appointment.updated_at,
        !.last_modified = t,
        !.deleted_at = excluded.deleted_at,
        !.metadata = excluded.metadata,
        !.duration = appointment.duration,
        !.reason = appointment.reason,
        !.notes = appointment.notes,
        !.status = appointment.status,
        !.fulfilled_visit_id = appointment.fulfilled_visit_id,
        !.timestamp = appointment.timestamp,
        !.is_deleted = FALSE,
        !.provider_id = appointment.provider_id]

\* Variant of the statement without its ON CONFLICT clause.
AppointmentInsertOnly(rows, excluded, appointment, t) == rows \cup {excluded}

\* INSERT INTO appointments ... ON CONFLICT (id) DO UPDATE
AppointmentUpsert(rows, excluded, appointment, t) ==
    IF \E a \in rows : a.id = excluded.id
       THEN {IF a.id = excluded.id
                THEN ConflictUpdate(a, excluded, appointment, t)
                ELSE a : a \in rows}
       ELSE rows \cup {excluded}

\* The upsert statement raises an error: the cast of appointment.timestamp
\* to timestamp with time zone fails.
UpsertFails(appointment) == appointment.timestamp # GoodTimestamp

\* Variant of the transaction in which the writes go to db, not to trx: they
\* stay when the callback throws.
TransactionResultWithoutRollback(before, written, threw) == written

\* What db.transaction().execute leaves in a table: the rows written
\* through trx when the callback returned, the rows from before when it threw.
TransactionResult(before, written, threw) ==
    IF threw THEN before ELSE written

\* The body of Appointment.API.save(id, appointment, currentUserName), with n
\* ids handed out by uuidV1() before.
SaveFrom(n, id, appointment, currentUserName) ==
    LET visitId == SaveVisitId(appointment, n)
        n1 == n + SaveVisitUuids(appointment)
        visitsInTrx ==
            IF SaveCreatesVisit(appointment)
               THEN visits \cup
                        {NewVisitRow(visitId, appointment, currentUserName, now)}
               ELSE visits
        targetId == SaveTargetId(id, appointment, n1)
        n2 == IF SaveNeedsFreshId(id, appointment) THEN n1 + 1 ELSE n1
        excluded == NewAppointmentRow(targetId, appointment, visitId, now)
        threw == UpsertFails(appointment)
        appointmentsInTrx ==
            IF threw THEN appointments
            ELSE AppointmentUpsert(appointments, excluded, appointment, now)
    IN  /\ n2 <= MaxUuid
        /\ nextUuid' = n2
        /\ visits' = TransactionResult(visits, visitsInTrx, threw)
        /\ appointments' =
               TransactionResult(appointments, appointmentsInTrx, threw)
        /\ saveRes' = IF threw THEN "error" ELSE "ok"
        /\ UNCHANGED <<clinics, users, patients, now, sdPc, sdId>>

\* Appointment.API.save(id, appointment, currentUserName)
AppointmentSave(id, appointment, currentUserName) ==
    /\ SaveFrom(nextUuid, id, appointment, currentUserName)
    /\ UNCHANGED applied

\* The record of an applied delta is appended; the oldest is dropped once
\* MaxApplied are kept.
Applied(log, entry) ==
    LET all == Append(log, entry)
    IN  IF Len(all) > MaxApplied THEN Tail(all) ELSE all

\* delta.id || uuidV1(), with n ids handed out before.
DeltaId(delta, n) == IF delta.id # "" THEN delta.id ELSE Uuid(n + 1)

\* Sync.upsertFromDelta(delta): API.save(delta.id || uuidV1(), delta, "")
UpsertFromDelta(delta) ==
    LET id == DeltaId(delta, nextUuid)
        n == IF delta.id # "" THEN nextUuid ELSE nextUuid + 1
    IN  /\ SaveFrom(n, Some(id), delta, "")
        /\ applied' = IF saveRes' = "ok"
                          THEN Applied(applied,
                                       [op |-> "upsert", id |-> id,
                                        delta |-> Some(delta)])
                          ELSE applied

\* Sync.deleteFromDelta(id): API.softDelete(id)
DeleteFromDelta(id) ==
    /\ SoftDeleteBody(id)
    /\ applied' = Applied(applied,
                          [op |-> "delete", id |-> id, delta |-> None])

\* The id argument of Appointment.API.save.
SaveIdInputs == {None, Some(ApptA)}

\* The ids a request may name.
AppointmentIdInputs == {a.id : a \in appointments} \cup {ApptA, ApptB}

\* The status argument of toggleStatus.
StatusInputs == {"confirmed"}

UserNames == {"Dr. A"}

---------------------------------------------------------------------------
(* Users.  The user model is not part of the sources; these are the        *)
(* requests that register, reassign and remove users.                      *)

\* A user is registered with, or reassigned to, clinic c.
UserRegister(u, c) ==
    /\ users' = {x \in users : x.id # u} \cup
                    {[id |-> u, clinic_id |-> c, is_deleted |-> FALSE]}
    /\ UNCHANGED <<clinics, patients, appointments, visits, now, nextUuid,
                   sdPc, sdId, saveRes, applied>>

\* A user is soft-deleted.
UserSoftDelete(u) ==
    /\ \E x \in users : x.id = u /\ x.is_deleted = FALSE
    /\ users' = {IF x.id = u THEN [x EXCEPT !.is_deleted = TRUE] ELSE x :
                    x \in users}
    /\ UNCHANGED <<clinics, patients, appointments, visits, now, nextUuid,
                   sdPc, sdId, saveRes, applied>>

---------------------------------------------------------------------------
(* The clock. *)

Tick ==
    /\ now < MaxTime
    /\ now' = now + 1
    /\ UNCHANGED <<clinics, users, patients, appointments, visits, nextUuid,
                   sdPc, sdId, saveRes, applied>>

---------------------------------------------------------------------------
(* Specifications. *)

Init ==
    /\ clinics = {NewClinicRow(SeedClinicId, "North", 0)}
    /\ users = {[id |-> SeedUserId, clinic_id |-> SeedClinicId,
                 is_deleted |-> FALSE]}
    /\ patients = {SeedPatientId}
    /\ appointments = {}
    /\ visits = {}
    /\ now = 1
    /\ nextUuid = 0
    /\ sdPc = "idle"
    /\ sdId = SeedClinicId
    /\ saveRes = "none"
    /\ applied = << >>

NextClinic ==
    \/ \E id \in ClinicIdInputs : ClinicSoftDeleteCheck(id)
    \/ ClinicSoftDeleteUpdate
    \/ \E id \in ClinicSaveIdInputs, name \in ClinicNames : ClinicSave(id, name)
    \/ \E u \in UserIds, c \in ClinicIdInputs : UserRegister(u, c)
    \/ \E u \in UserIds : UserSoftDelete(u)
    \/ Tick

SpecClinic == Init /\ [][NextClinic]_vars

Next ==
    \/ \E id \in SaveIdInputs, a \in AppointmentInputs, n \in UserNames :
           AppointmentSave(id, a, n)
    \/ \E id \in AppointmentIdInputs, s \in StatusInputs :
           AppointmentToggleStatus(id, s)
    \/ \E id \in AppointmentIdInputs : AppointmentSoftDelete(id)
    \/ Tick

Spec == Init /\ [][Next]_vars

NextSync ==
    \/ \E d \in DeltaInputs : UpsertFromDelta(d)
    \/ \E id \in AppointmentIdInputs : DeleteFromDelta(id)
    \/ Tick

SpecSync == Init /\ [][NextSync]_vars

\* Clinic.softDelete and Appointment.API.softDelete side by side, with the
\* requests that fill the two tables and free a clinic of its users.
NextSoftDelete ==
    \/ \E id \in ClinicIdInputs : ClinicSoftDeleteCheck(id)
    \/ ClinicSoftDeleteUpdate
    \/ ClinicSave(None, "South")
    \/ \E u \in UserIds : UserSoftDelete(u)
    \/ \E id \in SaveIdInputs, a \in AppointmentInputs, n \in UserNames :
           AppointmentSave(id, a, n)
    \/ \E id \in AppointmentIdInputs : AppointmentSoftDelete(id)

SpecSoftDelete == Init /\ [][NextSoftDelete]_vars

---------------------------------------------------------------------------
(* Properties. *)

ClinicIds(rows) == {c.id : c \in rows}

\* C1: Clinic.softDelete(id) called while a user row with clinic_id = id and
\* is_deleted = false exists throws, and leaves the clinics table as it was.
C1_SoftDeleteRefusesClinicWithUsers ==
    [][\A id \in ClinicIdInputs :
          (ClinicSoftDeleteCheck(id) /\ UsersInClinic(id) # {})
              => (sdPc' = "thrown" /\ clinics' = clinics)]_vars

\* A refused call: it threw, the clinic it named is stored, not deleted, and
\* still has a registered user.
C1_Witness ==
    /\ sdPc = "thrown"
    /\ UsersInClinic(sdId) # {}
    /\ \E c \in clinics : c.id = sdId /\ c.is_deleted = FALSE

\* C2: at the step where Clinic.softDelete sets a clinic's is_deleted flag,
\* no user row with that clinic_id and is_deleted = false exists, whatever
\* requests ran in between.
C2_DeletedOnlyWithoutUsers ==
    [][(ClinicSoftDeleteUpdate /\ \E c \in clinics : c.id = sdId)
          => UsersInClinic(sdId) = {}]_vars

\* C3: a soft delete keeps the row, sets is_deleted and deleted_at on it,
\* changes no other row, and hides the row from getAll and getById, which
\* return the rows with is_deleted = false.
C3_SoftDeleteMarksAndHides ==
    [][/\ ClinicSoftDeleteUpdate =>
             /\ ClinicIds(clinics') = ClinicIds(clinics)
             /\ Cardinality(clinics') = Cardinality(clinics)
             /\ \A c \in clinics :
                   IF c.id = sdId
                      THEN \E d \in clinics' :
                              /\ d.is_deleted = TRUE
                              /\ d.deleted_at # None
                              /\ d = [c EXCEPT !.is_deleted = TRUE,
                                               !.deleted_at = d.deleted_at]
                              /\ d \notin ClinicGetAll'
                      ELSE c \in clinics'
       /\ \A id \in AppointmentIdInputs :
             AppointmentSoftDelete(id) =>
                /\ {a.id : a \in appointments'} = {a.id : a \in appointments}
                /\ Cardinality(appointments') = Cardinality(appointments)
                /\ \A a \in appointments :
                      IF a.id = id
                         THEN \E d \in appointments' :
                                 /\ d.id = id
                                 /\ d.is_deleted = TRUE
                                 /\ d.deleted_at # None
                                 /\ d \notin AppointmentGetAll'
                         ELSE a \in appointments'
                /\ AppointmentGetById(id)' = None
       /\ \A c \in clinics' : c \in ClinicGetAll' <=> c.is_deleted = FALSE
       /\ ClinicGetAll' \subseteq clinics'
       /\ \A a \in appointments' :
             /\ a \in AppointmentGetAll' <=> a.is_deleted = FALSE
             /\ AppointmentGetById(a.id)' = Some(a) <=> a.is_deleted = FALSE
       /\ AppointmentGetAll' \subseteq appointments'
      ]_vars

\* A clinic and an appointment are stored, both soft-deleted, next to an
\* appointment that is not.
C3_Witness ==
    /\ sdPc = "done"
    /\ \E c \in clinics : c.id = sdId /\ c.is_deleted /\ c.deleted_at # None
    /\ \E a \in appointments : a.is_deleted /\ a.deleted_at # None
    /\ AppointmentGetAll # {}

\* The effect of an update by Clinic.save: the name of the row with this id
\* is set, nothing is inserted, nothing else changes.
ClinicSaveUpdated(id, name) ==
    /\ ClinicIds(clinics') = ClinicIds(clinics)
    /\ Cardinality(clinics') = Cardinality(clinics)
    /\ \A c \in clinics :
          IF c.id = id
             THEN [c EXCEPT !.name = Some(name)] \in clinics'
             ELSE c \in clinics'

\* The effect of a creation by Clinic.save: one row with a fresh id, the
\* name, is_deleted = false and deleted_at = null is added.
ClinicSaveCreated(name) ==
    /\ clinics \subseteq clinics'
    /\ \E c \in clinics' \ clinics :
          /\ clinics' = clinics \cup {c}
          /\ c.id \notin ClinicIds(clinics)
          /\ c.name = Some(name)
          /\ c.is_deleted = FALSE
          /\ c.deleted_at = None

AppointmentIds(rows) == {a.id : a \in rows}

\* The id a save names: its id argument, else the id in the record, else "".
NamedId(id, a) == IF id # None /\ id # Some("") THEN id[1] ELSE a.id

\* The row a save stored: the row with the named id, or, when no id was
\* named, the row whose id was not stored before.
SavedRows(id, a) ==
    {r \in appointments' :
        IF NamedId(id, a) # "" THEN r.id = NamedId(id, a)
        ELSE r.id \notin AppointmentIds(appointments)}

\* C4: a save that returns inserts no visit and stores the supplied
\* current_visit_id when that is a valid UUID; otherwise it inserts exactly
\* one visit, with the appointment's patient_id and clinic_id and
\* provider_id = user_id, and stores the id of that visit.
C4_VisitCreatedIffNoValidId ==
    [][\A id \in SaveIdInputs, a \in AppointmentInputs, n \in UserNames :
          (AppointmentSave(id, a, n) /\ saveRes' = "ok") =>
             /\ Cardinality(SavedRows(id, a)) = 1
             /\ IF isValidUUID(a.current_visit_id)
                   THEN /\ visits' = visits
                        /\ \A r \in SavedRows(id, a) :
                              r.current_visit_id = a.current_visit_id
                   ELSE \E v \in visits' \ visits :
                           /\ visits' = visits \cup {v}
                           /\ v.id \notin {w.id : w \in visits}
                           /\ v.patient_id = a.patient_id
                           /\ v.clinic_id = a.clinic_id
                           /\ v.provider_id = a.user_id
                           /\ \A r \in SavedRows(id, a) :
                                 r.current_visit_id = v.id]_vars

\* One appointment was saved with the visit the client supplied and no visit
\* row, then one with a visit created for it.
C4_Witness ==
    /\ saveRes = "ok"
    /\ \E r \in appointments :
          r.current_visit_id = ClientVisitId /\
          ClientVisitId \notin {v.id : v \in visits}
    /\ \E r \in appointments, v \in visits :
          r.current_visit_id = v.id /\ v.provider_id = r.user_id

\* C5: a save whose upsert fails returns an error and leaves both tables as
\* they were; and no save leaves a new visit without having written, in the
\* same step, the appointment that refers to it.
C5_SaveIsAtomic ==
    [][\A id \in SaveIdInputs, a \in AppointmentInputs, n \in UserNames :
          AppointmentSave(id, a, n) =>
             /\ UpsertFails(a) =>
                   /\ saveRes' = "error"
                   /\ visits' = visits
                   /\ appointments' = appointments
             /\ \A v \in visits' \ visits :
                   /\ saveRes' = "ok"
                   /\ \E r \in appointments' :
                         r.current_visit_id = v.id /\ r.last_modified = now
          ]_vars

\* A save failed after it had drawn an id for its visit: the id is used up,
\* no row was stored.
C5_Witness ==
    /\ saveRes = "error"
    /\ nextUuid > 0
    /\ visits = {}
    /\ appointments = {}

\* C6: a save on a stored id updates that row with the supplied values and
\* adds none; on an id that is not stored it inserts one row; ids stay
\* unique and the number of rows never decreases.
C6_UpsertOnId ==
    [][/\ \A r1, r2 \in appointments' : r1.id = r2.id => r1 = r2
       /\ AppointmentIds(appointments) \subseteq AppointmentIds(appointments')
       /\ Cardinality(appointments') >= Cardinality(appointments)
       /\ \A id \in SaveIdInputs, a \in AppointmentInputs, n \in UserNames :
             (AppointmentSave(id, a, n) /\ saveRes' = "ok") =>
                /\ Cardinality(SavedRows(id, a)) = 1
                /\ \A r \in SavedRows(id, a) :
                      /\ r.status = a.status
                      /\ r.provider_id = a.provider_id
                      /\ r.clinic_id = a.clinic_id
                      /\ r.patient_id = a.patient_id
                      /\ r.user_id = a.user_id
                      /\ r.updated_at = a.updated_at
                /\ IF NamedId(id, a) \in AppointmentIds(appointments)
                      THEN /\ AppointmentIds(appointments') =
                                 AppointmentIds(appointments)
                           /\ Cardinality(appointments') =
                                 Cardinality(appointments)
                      ELSE /\ Cardinality(appointments') =
                                 Cardinality(appointments) + 1
                           /\ \A r \in SavedRows(id, a) :
                                 r.id \notin AppointmentIds(appointments)
      ]_vars

\* A stored row was updated by a later save (its last write is later than
\* its creation and carries the client's updated_at) next to another row.
C6_Witness ==
    /\ saveRes = "ok"
    /\ Cardinality(appointments) >= 2
    /\ \E r \in appointments :
          /\ r.id = ApptA
          /\ r.server_created_at < r.last_modified
          /\ r.updated_at = 0
          /\ r.status = "pending"

\* C8: getAllWithDetails returns every appointment getAll returns.
C8_DetailsCoverGetAll ==
    {d.appointment.id : d \in AppointmentGetAllWithDetails} =
        {a.id : a \in AppointmentGetAll}

\* C9: a written appointment row carries the server's current time as
\* last_modified; last_modified of a row never decreases and its
\* server_created_at never changes.
C9_LastModifiedBookkeeping ==
    [][/\ \A r \in appointments' \ appointments : r.last_modified = now
       /\ \A r \in appointments, r2 \in appointments' :
             r.id = r2.id =>
                /\ r2.last_modified >= r.last_modified
                /\ r2.server_created_at = r.server_created_at
      ]_vars

\* A row created at one time was rewritten by a save at a later time: it
\* carries the client's updated_at, the earlier server_created_at and the
\* later last_modified.
C9_Witness ==
    \E r \in appointments :
       /\ r.server_created_at < r.last_modified
       /\ r.last_modified = now
       /\ r.updated_at = 0
       /\ r.last_modified # BookingWithIds.last_modified

\* C10: the last applied delta wins.  After an applied upsert the row is
\* stored with is_deleted = false and deleted_at = null and getById returns
\* it, also right after a delete of the same id; after a delete, also right
\* after an upsert of the same id, getById returns nothing.
C10_LastDeltaWins ==
    /\ Len(applied) >= 1 =>
          LET last == applied[Len(applied)]
              found == AppointmentGetById(last.id)
          IN  IF last.op = "upsert"
                 THEN /\ found # None
                      /\ found[1].is_deleted = FALSE
                      /\ found[1].deleted_at = None
                      /\ \A r \in appointments :
                            r.id = last.id => r = found[1]
                 ELSE /\ found = None
                      /\ \A r \in appointments :
                            r.id = last.id =>
                               r.is_deleted = TRUE /\ r.deleted_at # None

\* A stored row was deleted by a delta and then brought back by an upsert of
\* the same id.
C10_Witness ==
    /\ Len(applied) = 2
    /\ applied[1].op = "delete"
    /\ applied[2].op = "upsert"
    /\ applied[1].id = applied[2].id
    /\ \E r \in appointments :
          /\ r.id = applied[2].id
          /\ r.server_created_at < r.last_modified
          /\ r.is_deleted = FALSE

\* The rows of the appointments table without the server-clock column
\* last_modified.
WithoutClock(rows) == {[r EXCEPT !.last_modified = 0] : r \in rows}

\* The delta was the last one the sync path applied.
AppliedLast(d) ==
    /\ Len(applied) >= 1
    /\ applied[Len(applied)].op = "upsert"
    /\ applied[Len(applied)].delta = Some(d)

\* Applying the delta again leaves both tables as they are, but for
\* last_modified.
SecondApplicationChangesNothing ==
    /\ visits' = visits
    /\ WithoutClock(appointments') = WithoutClock(appointments)

\* C11 as stated: for every delta with a non-empty id, with or without a
\* valid current_visit_id, Sync.upsertFromDelta applied a second time in
\* succession leaves the appointments and the visits as the first did.
C11_UpsertTwiceIsUpsertOnce ==
    [][\A d \in DeltaInputs :
          (d.id # "" /\ AppliedLast(d) /\ UpsertFromDelta(d))
              => SecondApplicationChangesNothing]_vars

\* C11: for every delta with a non-empty id and a valid current_visit_id,
\* Sync.upsertFromDelta applied a second time in succession leaves the
\* appointments and the visits as the first did, but for last_modified; a
\* delta that throws leaves them as they are each time.
C11_UpsertTwiceIsUpsertOnceWithVisitId ==
    [][\A d \in DeltaInputs :
          /\ (d.id # "" /\ isValidUUID(d.current_visit_id) /\
              AppliedLast(d) /\ UpsertFromDelta(d))
                => SecondApplicationChangesNothing
          /\ (UpsertFromDelta(d) /\ UpsertFails(d))
                => (visits' = visits /\ appointments' = appointments)
      ]_vars

\* The same delta, with an id and a valid current_visit_id, was applied twice
\* in succession, the second time at a later clock tick than the row was
\* created.
C11_Witness ==
    /\ Len(applied) = 2
    /\ applied[1] = applied[2]
    /\ applied[2].op = "upsert"
    /\ applied[2].id # ""
    /\ isValidUUID(applied[2].delta[1].current_visit_id)
    /\ \E r \in appointments :
          /\ r.id = applied[2].id
          /\ r.server_created_at < r.last_modified

====
